---------------------------- MODULE Spec2Model ----------------------------
(***************************************************************************)
(* Model of the aws-ollama-llm-platform request handlers.                  *)
(*                                                                         *)
(* Two handler families exist in the repository:                           *)
(*   "task"    : lambda-functions/instances/lambda_function.py, which runs *)
(*               one bare ECS task per instance and keys its table by      *)
(*               'id';                                                     *)
(*   "service" : src/lambda/models.py + src/lambda/instances.py, which run *)
(*               one ECS service + target group per instance and key the   *)
(*               table by 'instance_id'.                                   *)
(* Both read INSTANCES_TABLE_NAME but with different key attributes, so a  *)
(* table serves one family only; `deployment` says which family the table  *)
(* of this behaviour serves.                                               *)
(*                                                                         *)
(* Every handler is one atomic action (one invocation, run to completion). *)
(* Each external call of a handler may raise: the input `fail` is the set  *)
(* of calls that raise in this invocation.  The store answers a scan or a  *)
(* query with the complete result (one page).                              *)
(***************************************************************************)
EXTENDS Integers, Sequences, FiniteSets, TLC

\* ------------------------------------------------------------------ bounds
\* number of instance identifiers (uuid4 values) create_instance ever provisions with
MaxIds == 2
\* number of instance identifiers start_model ever provisions with
MaxServices == 1
\* largest desired/running replica count fed to the service status mapping
MaxCount == 2
\* largest number of log streams describe_log_streams returns for one instance
MaxStreams == 1
\* number of invocations that run concurrently
MaxProcs == 3

\* ------------------------------------------------------- program constants
\* int(os.environ.get('MAX_INSTANCES_PER_USER', '5')): an environment setting;
\* this development configures it to 1
MAX_INSTANCES_PER_USER == 1

Ids == 1..MaxIds
ServiceIds == 1..MaxServices
Users == {"alice", "bob"}
\* a caller: the 'sub' claim and whether 'Administrators' is among the groups
Callers == {[user_id |-> "alice", admin |-> FALSE], [user_id |-> "bob", admin |-> FALSE],
            [user_id |-> "bob", admin |-> TRUE]}
None == "None"
\* a request whose event has no body, or a null one: json.loads(event['body']) raises
NoBody == "NoBody"
\* the Model Catalog (scripts/populate-models.py); "ghost:1b" is not in it
Catalog == {"llama2:7b"}
ModelIds == {"llama2:7b", "ghost:1b"}
\* instance-size selectors the requests of Spec carry ("absent" = key not in body);
\* the selector tables themselves are exercised under SpecFn
Absent == "absent"
InstanceTypes == {Absent}

VARIABLES
    deployment,    \* "task" or "service": the handler family deployed
    instances,     \* the Instance table: a function id -> record, on the ids stored
    nextId,        \* number of identifiers generated so far (uuid4 never repeats)
    tasks,         \* ECS: task ARN -> lastStatus, on the tasks ECS knows
    services,      \* ECS: service name -> [status, desiredCount, runningCount]
    targetGroups,  \* ELB: the target groups that exist
    taskDefs,      \* ECS: the registered task definitions
    resp,          \* the last invocation: request, response, calls issued
    fn,            \* a pure-function evaluation: [name, arg, out]
    procs          \* concurrent invocations: each one's request, position and locals

vars == <<deployment, instances, nextId, tasks, services, targetGroups, taskDefs, resp, fn,
          procs>>

stateVars == <<instances, nextId, tasks, services, targetGroups, taskDefs>>

\* "n/a": the request carries no such field / the handler read no record
NA == "n/a"

NoResp == [op |-> "none", caller |-> [user_id |-> None, admin |-> FALSE], id |-> 0,
           model_id |-> NA, stored |-> NA, code |-> 0, body |-> [kind |-> "none"],
           calls |-> {}, raised |-> {}]

NoFn == [name |-> "none", arg |-> <<>>, out |-> None]

\* no concurrent invocation
NoProcs == <<>>


\* The record of one invocation: the request (op, caller, id, model_id), the status of
\* the record get_item returned (stored), the response (code, body), the external
\* calls issued and those of them that raised.
Respond(op, caller, id, model_id, stored, code, body, calls, raised) ==
    resp' = [op |-> op, caller |-> caller, id |-> id, model_id |-> model_id,
             stored |-> stored, code |-> code, body |-> body,
             calls |-> calls, raised |-> raised]

\* the status of the record instances_table.get_item returns, if it returns one
Stored(instance_id, fail) ==
    IF "instances.get_item" \notin fail /\ instance_id \in DOMAIN instances
    THEN instances[instance_id].status ELSE NA

ErrorBody(msg) == [kind |-> "error", error |-> msg]

\* mutant: the permission check is dropped
Forbidden_Never(instance, caller) == FALSE

\* mutant: the test for the 'Administrators' group loses its negation
Forbidden_AdminsOnly(instance, caller) ==
    instance.user_id # caller.user_id /\ caller.admin

\* instance['user_id'] != user_info['user_id'] and 'Administrators' not in user_info['groups']
Forbidden(instance, caller) ==
    instance.user_id # caller.user_id /\ ~caller.admin

EcsCalls == {"ecs.run_task", "ecs.stop_task", "ecs.describe_tasks", "ecs.describe_services",
             "ecs.update_service", "ecs.delete_service", "ecs.create_service",
             "ecs.register_task_definition"}
ElbCalls == {"elbv2.create_target_group", "elbv2.delete_target_group"}
WriteCalls == {"instances.put_item", "instances.update_item", "instances.delete_item"}

\* ------------------------------------------------------------------------
\* lambda-functions/instances/lambda_function.py  (deployment = "task")
\* ------------------------------------------------------------------------

\* body.get('instanceType', 'ml.m5.large')
InstanceTypeOrDefault(t) == IF t = Absent THEN "ml.m5.large" ELSE t

CostTable == [x \in {"ml.m5.large", "ml.m5.xlarge", "ml.m5.2xlarge", "ml.g4dn.xlarge",
                     "ml.g4dn.2xlarge", "ml.p3.2xlarge"} |->
                CASE x = "ml.m5.large"     -> "$0.12/hour"
                  [] x = "ml.m5.xlarge"    -> "$0.24/hour"
                  [] x = "ml.m5.2xlarge"   -> "$0.48/hour"
                  [] x = "ml.g4dn.xlarge"  -> "$0.71/hour"
                  [] x = "ml.g4dn.2xlarge" -> "$1.42/hour"
                  [] x = "ml.p3.2xlarge"   -> "$3.06/hour"]

\* mutant: the lookup misses every key (the table keyed without the 'ml.' prefix)
get_estimated_cost_Miss(instance_type) == "$0.00/hour"

\* JSON values an instanceType can be besides a string
JsonNull == "null"
JsonNumber == "<number>"
JsonArray == "<array>"
JsonObject == "<object>"

\* a Python list or dict cannot be hashed, every other JSON value can
Hashable(v) == v \notin {JsonArray, JsonObject}

\* what dict.get raises for a key that cannot be hashed
TypeError == "TypeError"

\* cost_mapping.get(instance_type, '$0.00/hour')
get_estimated_cost(instance_type) ==
    IF ~Hashable(instance_type) THEN TypeError
    ELSE IF instance_type \in DOMAIN CostTable THEN CostTable[instance_type]
    ELSE "$0.00/hour"

gpu_instance_types == {"ml.g4dn.xlarge", "ml.g4dn.2xlarge", "ml.p3.2xlarge"}
large_cpu_types == {"ml.m5.2xlarge", "ml.m5.4xlarge", "ml.c5.4xlarge"}

get_task_configuration(model_id, instance_type) ==
    IF instance_type \in gpu_instance_types
    THEN [launch_type |-> "EC2", task_definition |-> "GPU_TASK_DEFINITION_ARN",
          placement_constraints |-> {instance_type}]
    ELSE IF instance_type \in large_cpu_types
    THEN [launch_type |-> "EC2", task_definition |-> "CPU_TASK_DEFINITION_ARN",
          placement_constraints |-> {instance_type}]
    ELSE [launch_type |-> "FARGATE", task_definition |-> "CPU_TASK_DEFINITION_ARN",
          placement_constraints |-> {}]

\* f"https://{instance_id}.{DOMAIN_NAME}/api"
Endpoint(instance_id) == <<"https://", instance_id, ".", "DOMAIN_NAME", "/api">>

\* task.get('lastStatus', '').lower()
Lower(s) ==
    CASE s = "PROVISIONING" -> "provisioning"
      [] s = "PENDING"      -> "pending"
      [] s = "RUNNING"      -> "running"
      [] s = "STOPPING"     -> "stopping"
      [] s = "STOPPED"      -> "stopped"
      [] s = "ACTIVATING"   -> "activating"
      [] s = "DEACTIVATING" -> "deactivating"
      [] s = "DEPROVISIONING" -> "deprovisioning"
      [] OTHER              -> s

\* mutant: the table maps 'pending' to itself
status_mapping_PendingKept(last_status) ==
    CASE last_status = "pending"  -> "pending"
      [] last_status = "running"  -> "running"
      [] last_status = "stopping" -> "stopping"
      [] last_status = "stopped"  -> "stopped"
      [] OTHER                    -> "unknown"

status_mapping(last_status) ==
    CASE last_status = "pending"  -> "starting"
      [] last_status = "running"  -> "running"
      [] last_status = "stopping" -> "stopping"
      [] last_status = "stopped"  -> "stopped"
      [] OTHER                    -> "unknown"

get_ecs_task_status(task_arn, fail) ==
    IF "ecs.describe_tasks" \in fail THEN "unknown"
    ELSE IF task_arn \notin DOMAIN tasks THEN "stopped"
    ELSE status_mapping(Lower(tasks[task_arn]))

\* what create_instance/list_instances/get_instance return of a record
InstanceView(id, item) ==
    [id |-> id, modelId |-> item.model_id, status |-> item.status,
     instanceType |-> item.instance_type, estimatedCost |-> item.estimated_cost,
     endpoint |-> item.endpoint, startedAt |-> item.created_at]

\* the orders in which a result set can be returned
Orderings(S) ==
    {s \in [1..Cardinality(S) -> S] : \A j, k \in DOMAIN s : j # k => s[j] # s[k]}


\* table.put_item / update_item / delete_item on the Instance table
\* (DeleteItem_WrongKey, a mutant: the delete addresses a key that matches nothing;
\* PutItem_Dropped, a mutant: the put stores nothing; PutItem_Clobber, a mutant:
\* the put replaces the whole table by the new item)
PutItem_Dropped(table, id, item) == table
PutItem_Clobber(table, id, item) == [i \in {id} |-> item]
PutItem(table, id, item) == [i \in DOMAIN table \cup {id} |-> IF i = id THEN item ELSE table[i]]
\* update_item SET #status = :status, <stamp> = now: stamp is the timestamp attribute
\* the caller names (updated_at, last_status_update)
\* (SetStatus_ClearsOwner, a mutant: the update also overwrites user_id)
SetStatus_ClearsOwner(table, id, status, stamp) ==
    [table EXCEPT ![id] = [[@ EXCEPT !.status = status]
                              EXCEPT ![stamp] = "set", !.user_id = None]]
SetStatus(table, id, status, stamp) ==
    [table EXCEPT ![id] = [[@ EXCEPT !.status = status] EXCEPT ![stamp] = "set"]]
DeleteItem_WrongKey(table, id) == table
DeleteItem(table, id) == [i \in DOMAIN table \ {id} |-> table[i]]

\* datetime.now(timezone.utc).isoformat() at the creation of the record numbered n:
\* the clock never runs backwards, so later records carry later readings
Now(n) == n

\* mutant: the 'Item' test of the model lookup is dropped
ModelFound_Unchecked(model_id) == TRUE

\* 'Item' in model_response
ModelFound(model_id) == model_id \in Catalog

\* POST /instances
create_instance(caller, model_id, instanceType, fail) ==
    LET instance_type == InstanceTypeOrDefault(instanceType)
        instance_id == nextId + 1
        task_config == get_task_configuration(model_id, instance_type)
        task_arn == instance_id
        instance_data == [user_id |-> caller.user_id, model_id |-> model_id,
                          status |-> "starting", instance_type |-> instance_type,
                          task_arn |-> task_arn,
                          created_at |-> Now(instance_id), updated_at |-> "created",
                          estimated_cost |-> get_estimated_cost(instance_type),
                          endpoint |-> Endpoint(instance_id)]
        R(code, body, calls) ==
            Respond("create_instance", caller, 0, model_id, NA, code, body, calls,
                    (calls \cap fail)
                    \cup (IF "ecs.run_task" \in calls THEN fail \cap {"ecs.run_task.empty"} ELSE {}))
    IN
    /\ deployment = "task"
    /\ IF model_id = NoBody
       THEN /\ Respond("create_instance", caller, 0, model_id, NA, 500,
                       ErrorBody("Failed to create instance"), {}, {"json.loads"})
            /\ UNCHANGED stateVars
       ELSE IF model_id = None
       THEN /\ R(400, ErrorBody("modelId is required"), {})
            /\ UNCHANGED stateVars
       ELSE IF "models.get_item" \in fail
       THEN /\ R(500, ErrorBody("Failed to create instance"), {"models.get_item"})
            /\ UNCHANGED stateVars
       ELSE IF ~ModelFound(model_id)
       THEN /\ R(404, ErrorBody("Model not found"), {"models.get_item"})
            /\ UNCHANGED stateVars
       ELSE IF "ecs.run_task" \in fail \/ "ecs.run_task.empty" \in fail
       THEN \* run_task raises, or answers with no task: start_ecs_task raises
            /\ R(500, ErrorBody("Failed to create instance"), {"models.get_item", "ecs.run_task"})
            /\ UNCHANGED stateVars
       ELSE /\ nextId < MaxIds
            /\ nextId' = instance_id
            /\ tasks' = PutItem(tasks, task_arn, "PROVISIONING")
            /\ UNCHANGED <<services, targetGroups, taskDefs>>
            /\ IF get_estimated_cost(instance_type) = TypeError
               THEN /\ Respond("create_instance", caller, 0, model_id, NA, 500,
                               ErrorBody("Failed to create instance"),
                               {"models.get_item", "ecs.run_task"}, {"get_estimated_cost"})
                    /\ UNCHANGED instances
               ELSE IF "instances.put_item" \in fail
               THEN /\ R(500, ErrorBody("Failed to create instance"),
                         {"models.get_item", "ecs.run_task", "instances.put_item"})
                    /\ UNCHANGED instances
               ELSE /\ instances' = PutItem(instances, instance_id, instance_data)
                    /\ R(201, [kind |-> "instance"] @@ InstanceView(instance_id, instance_data),
                         {"models.get_item", "ecs.run_task", "instances.put_item"})

\* ecs_client.stop_task: raises for a task ECS does not know
StopTaskRaises(task_arn, fail) == "ecs.stop_task" \in fail \/ task_arn \notin DOMAIN tasks

StoppedByStopTask(last_status) ==
    IF last_status \in {"STOPPING", "STOPPED"} THEN last_status ELSE "STOPPING"

\* DELETE /instances/{id}
delete_instance(instance_id, caller, fail) ==
    LET R(code, body, calls) ==
            Respond("delete_instance", caller, instance_id, NA, Stored(instance_id, fail),
                    code, body, calls,
                    {c \in calls : \/ c \in fail
                                   \/ /\ c = "ecs.stop_task"
                                      /\ StopTaskRaises(instances[instance_id].task_arn, fail)})
    IN
    /\ deployment = "task"
    /\ IF "instances.get_item" \in fail
       THEN /\ R(500, ErrorBody("Failed to delete instance"), {"instances.get_item"})
            /\ UNCHANGED stateVars
       ELSE IF instance_id \notin DOMAIN instances
       THEN /\ R(404, ErrorBody("Instance not found"), {"instances.get_item"})
            /\ UNCHANGED stateVars
       ELSE IF Forbidden(instances[instance_id], caller)
       THEN /\ R(403, ErrorBody("Access denied"), {"instances.get_item"})
            /\ UNCHANGED stateVars
       ELSE LET task_arn == instances[instance_id].task_arn
                calls == {"instances.get_item", "ecs.stop_task", "instances.delete_item"}
            IN
            /\ tasks' = IF StopTaskRaises(task_arn, fail) THEN tasks
                        ELSE [tasks EXCEPT ![task_arn] = StoppedByStopTask(@)]
            /\ UNCHANGED <<nextId, services, targetGroups, taskDefs>>
            /\ IF "instances.delete_item" \in fail
               THEN /\ R(500, ErrorBody("Failed to delete instance"), calls)
                    /\ UNCHANGED instances
               ELSE /\ instances' = DeleteItem(instances, instance_id)
                    /\ R(204, [kind |-> "empty"], calls)

\* the records a scan (optionally filtered on user_id) returns
Visible(caller) ==
    {i \in DOMAIN instances : caller.admin \/ instances[i].user_id = caller.user_id}

\* GET /instances
lf_list_instances(caller, fail) ==
    LET R(code, body, calls) ==
            Respond("lf_list_instances", caller, 0, NA, NA, code, body, calls, calls \cap fail)
    IN
    /\ deployment = "task"
    /\ UNCHANGED stateVars
    /\ IF "instances.scan" \in fail
       THEN R(500, ErrorBody("Failed to list instances"), {"instances.scan"})
       ELSE \* response['Items'] in the order the scan yields them
            \E order \in Orderings(Visible(caller)) :
              R(200, [kind |-> "list",
                      items |-> [k \in DOMAIN order |-> InstanceView(order[k], instances[order[k]])]],
                {"instances.scan"})

\* GET /instances/{id}
lf_get_instance(instance_id, caller, fail) ==
    LET R(code, body, calls) ==
            Respond("lf_get_instance", caller, instance_id, NA, Stored(instance_id, fail),
                    code, body, calls, calls \cap fail)
    IN
    /\ deployment = "task"
    /\ UNCHANGED <<nextId, tasks, services, targetGroups, taskDefs>>
    /\ IF "instances.get_item" \in fail
       THEN /\ R(500, ErrorBody("Failed to get instance"), {"instances.get_item"})
            /\ UNCHANGED instances
       ELSE IF instance_id \notin DOMAIN instances
       THEN /\ R(404, ErrorBody("Instance not found"), {"instances.get_item"})
            /\ UNCHANGED instances
       ELSE IF Forbidden(instances[instance_id], caller)
       THEN /\ R(403, ErrorBody("Access denied"), {"instances.get_item"})
            /\ UNCHANGED instances
       ELSE LET instance == instances[instance_id]
                current_status == get_ecs_task_status(instance.task_arn, fail)
            IN
            IF current_status = instance.status
            THEN /\ R(200, [kind |-> "instance"] @@ InstanceView(instance_id, instance),
                      {"instances.get_item", "ecs.describe_tasks"})
                 /\ UNCHANGED instances
            ELSE IF "instances.update_item" \in fail
            THEN /\ R(500, ErrorBody("Failed to get instance"),
                      {"instances.get_item", "ecs.describe_tasks", "instances.update_item"})
                 /\ UNCHANGED instances
            ELSE /\ instances' = SetStatus(instances, instance_id, current_status, "updated_at")
                 /\ R(200, [kind |-> "instance"]
                           @@ InstanceView(instance_id, [instance EXCEPT !.status = current_status]),
                      {"instances.get_item", "ecs.describe_tasks", "instances.update_item"})

\* ECS moves a task through its lifecycle; a stopped task is forgotten after a while
TaskProgress(task_arn) ==
    /\ resp = NoResp
    /\ task_arn \in DOMAIN tasks
    /\ tasks' = IF tasks[task_arn] = "STOPPED" THEN DeleteItem(tasks, task_arn)
                ELSE [tasks EXCEPT ![task_arn] =
                        CASE @ = "PROVISIONING" -> "PENDING"
                          [] @ = "PENDING"      -> "RUNNING"
                          [] @ = "RUNNING"      -> "STOPPED"
                          [] @ = "STOPPING"     -> "STOPPED"]
    /\ UNCHANGED <<deployment, instances, nextId, services, targetGroups, taskDefs, resp, fn,
                   procs>>


\* ------------------------------------------------------------------------
\* src/lambda/models.py and src/lambda/instances.py  (deployment = "service")
\* ------------------------------------------------------------------------

\* body.get('instance_type', 'fargate')
InstanceTypeOrFargate(t) == IF t = Absent THEN "fargate" ELSE t

\* f"ollama-{instance_id[:8]}"
ServiceName(instance_id) == instance_id

\* f"https://ollama-{instance_id[:8]}.{DOMAIN_NAME}"
EndpointUrl(instance_id) == <<"https://ollama-", instance_id, ".", "DOMAIN_NAME">>

\* the query on UserIdIndex with the status filter, and the comparison with the limit
ActiveInstances(user_id) ==
    {i \in DOMAIN instances : /\ instances[i].user_id = user_id
                              /\ instances[i].status \in {"running", "starting"}}

\* mutant: the except branch answers True (fails open)
check_user_instance_limits_FailOpen(user_id, fail) ==
    IF "instances.query" \in fail THEN TRUE
    ELSE Cardinality(ActiveInstances(user_id)) < MAX_INSTANCES_PER_USER

check_user_instance_limits(user_id, fail) ==
    IF "instances.query" \in fail THEN FALSE
    ELSE Cardinality(ActiveInstances(user_id)) < MAX_INSTANCES_PER_USER

\* POST /models/start
start_model(caller, model_id, instanceType, fail) ==
    LET instance_type == InstanceTypeOrFargate(instanceType)
        instance_id == nextId + 1
        service_name == ServiceName(instance_id)
        item == [user_id |-> caller.user_id, model_id |-> model_id,
                 service_name |-> service_name, ecs_service_arn |-> service_name,
                 target_group_arn |-> service_name, task_definition_arn |-> instance_id,
                 status |-> "starting", instance_type |-> instance_type,
                 endpoint_url |-> EndpointUrl(instance_id),
                 created_at |-> Now(instance_id), ttl |-> "Decimal",
                 last_status_update |-> None, stopped_at |-> None]
        R(code, body, calls) ==
            Respond("start_model", caller, 0, model_id, NA, code, body, calls, calls \cap fail)
        c1 == {"models.get_item"}
        c2 == c1 \cup {"instances.query"}
        c3 == c2 \cup {"ecs.register_task_definition"}
        c4 == c3 \cup {"elbv2.create_target_group"}
        c5 == c4 \cup {"ecs.create_service"}
        c6 == c5 \cup {"instances.put_item"}
    IN
    /\ deployment = "service"
    /\ UNCHANGED tasks
    /\ IF model_id = NoBody
       THEN /\ Respond("start_model", caller, 0, model_id, NA, 500,
                       ErrorBody("Failed to start model"), {}, {"json.loads"})
            /\ UNCHANGED stateVars
       ELSE IF model_id = None
       THEN /\ R(400, ErrorBody("model_id is required"), {})
            /\ UNCHANGED stateVars
       ELSE IF "models.get_item" \in fail
       THEN /\ R(500, ErrorBody("Failed to start model"), c1)
            /\ UNCHANGED stateVars
       ELSE IF ~ModelFound(model_id)
       THEN /\ R(404, ErrorBody("Model not found"), c1)
            /\ UNCHANGED stateVars
       ELSE IF ~check_user_instance_limits(caller.user_id, fail)
       THEN /\ R(429, ErrorBody("Instance limit exceeded"), c2)
            /\ UNCHANGED stateVars
       ELSE IF "ecs.register_task_definition" \in fail
       THEN /\ R(500, ErrorBody("Failed to start model"), c3)
            /\ UNCHANGED stateVars
       ELSE /\ nextId < MaxServices
            /\ nextId' = instance_id
            /\ taskDefs' = taskDefs \cup {instance_id}
            /\ IF "elbv2.create_target_group" \in fail
               THEN /\ R(500, ErrorBody("Failed to start model"), c4)
                    /\ UNCHANGED <<instances, services, targetGroups>>
               ELSE /\ targetGroups' = targetGroups \cup {service_name}
                    /\ IF "ecs.create_service" \in fail
                       THEN /\ R(500, ErrorBody("Failed to start model"), c5)
                            /\ UNCHANGED <<instances, services>>
                       ELSE /\ services' = PutItem(services, service_name,
                                   [status |-> "ACTIVE", desiredCount |-> 1, runningCount |-> 0])
                            /\ IF "instances.put_item" \in fail
                               THEN /\ R(500, ErrorBody("Failed to start model"), c6)
                                    /\ UNCHANGED instances
                               ELSE /\ instances' = PutItem(instances, instance_id, item)
                                    /\ R(201, [kind |-> "started", instance_id |-> instance_id,
                                               service_name |-> service_name,
                                               status |-> "starting",
                                               endpoint_url |-> item.endpoint_url], c6)

\* ecs_client.update_service: raises unless the service exists and is ACTIVE
UpdateServiceRaises(service_name, fail) ==
    \/ "ecs.update_service" \in fail
    \/ service_name \notin DOMAIN services
    \/ services[service_name].status # "ACTIVE"

\* the service after delete_service: it drains while tasks still run
DeletedService(service) ==
    [service EXCEPT !.status = IF service.runningCount > 0 THEN "DRAINING" ELSE "INACTIVE"]

\* the try block "Stop ECS service": update_service(desiredCount=0), then delete_service
StopEcsService(service_name, fail) ==
    IF UpdateServiceRaises(service_name, fail) THEN services
    ELSE LET scaled == [services[service_name] EXCEPT !.desiredCount = 0]
         IN [services EXCEPT ![service_name] =
                IF "ecs.delete_service" \in fail THEN scaled ELSE DeletedService(scaled)]

\* SET #status = 'stopped', stopped_at = now
MarkStopped(table, id) == [table EXCEPT ![id].status = "stopped", ![id].stopped_at = "set"]

\* mutant: the update carries a condition "status <> stopped" and raises when it fails
StopUpdateRaises_Conditional(instance, fail) ==
    "instances.update_item" \in fail \/ instance.status = "stopped"

\* the update_item of stop_model is unconditional: it raises only when the store does
StopUpdateRaises(instance, fail) == "instances.update_item" \in fail

\* DELETE /models/{id}/stop
stop_model(instance_id, caller, fail) ==
    LET R(code, body, calls) ==
            Respond("stop_model", caller, instance_id, NA, Stored(instance_id, fail),
                    code, body, calls,
                    {c \in calls : \/ c \in fail
                                   \/ /\ c = "ecs.update_service"
                                      /\ UpdateServiceRaises(instances[instance_id].service_name, fail)})
    IN
    /\ deployment = "service"
    /\ UNCHANGED <<nextId, tasks, taskDefs>>
    /\ IF "instances.get_item" \in fail
       THEN /\ R(500, ErrorBody("Failed to stop model"), {"instances.get_item"})
            /\ UNCHANGED <<instances, services, targetGroups>>
       ELSE IF instance_id \notin DOMAIN instances
       THEN /\ R(404, ErrorBody("Instance not found"), {"instances.get_item"})
            /\ UNCHANGED <<instances, services, targetGroups>>
       ELSE IF Forbidden(instances[instance_id], caller)
       THEN /\ R(403, ErrorBody("Access denied"), {"instances.get_item"})
            /\ UNCHANGED <<instances, services, targetGroups>>
       ELSE LET instance == instances[instance_id]
                calls == {"instances.get_item", "ecs.update_service",
                          "elbv2.delete_target_group", "instances.update_item"}
                         \cup (IF UpdateServiceRaises(instance.service_name, fail)
                               THEN {} ELSE {"ecs.delete_service"})
            IN
            /\ services' = StopEcsService(instance.service_name, fail)
            /\ targetGroups' = IF "elbv2.delete_target_group" \in fail THEN targetGroups
                               ELSE targetGroups \ {instance.target_group_arn}
            /\ IF StopUpdateRaises(instance, fail)
               THEN /\ R(500, ErrorBody("Failed to stop model"), calls)
                    /\ UNCHANGED instances
               ELSE /\ instances' = MarkStopped(instances, instance_id)
                    /\ R(200, [kind |-> "stopped", instance_id |-> instance_id,
                               status |-> "stopped"], calls)


\* mutant: the equality of the two counts is tested before the zero desired count
MapServiceStatus_EqualFirst(found, service) ==
    IF ~found THEN "stopped"
    ELSE IF service.status = "ACTIVE"
    THEN IF service.runningCount = service.desiredCount THEN "running"
         ELSE IF service.desiredCount = 0 THEN "stopped"
         ELSE IF service.runningCount > 0 THEN "starting"
         ELSE "pending"
    ELSE IF service.status = "DRAINING" THEN "stopping"
    ELSE "unknown"

\* the mapping of get_ecs_service_status on describe_services' answer:
\* found = response['services'] is not empty, service = response['services'][0]
MapServiceStatus(found, service) ==
    IF ~found THEN "stopped"
    ELSE IF service.status = "ACTIVE"
    THEN IF service.desiredCount = 0 THEN "stopped"
         ELSE IF service.runningCount = service.desiredCount THEN "running"
         ELSE IF service.runningCount > 0 THEN "starting"
         ELSE "pending"
    ELSE IF service.status = "DRAINING" THEN "stopping"
    ELSE "unknown"

NoService == [status |-> "MISSING", desiredCount |-> 0, runningCount |-> 0]

get_ecs_service_status(instance, fail) ==
    IF "service_name" \notin DOMAIN instance \/ "ecs_service_arn" \notin DOMAIN instance
    THEN instance.status
    ELSE IF "ecs.describe_services" \in fail THEN instance.status
    ELSE IF instance.service_name \in DOMAIN services
    THEN MapServiceStatus(TRUE, services[instance.service_name])
    ELSE MapServiceStatus(FALSE, NoService)

\* the record as instances.py returns it, with the live status added
Enriched(id, instance, fail) ==
    [instance_id |-> id, user_id |-> instance.user_id, model_id |-> instance.model_id,
     status |-> instance.status, endpoint_url |-> instance.endpoint_url,
     created_at |-> instance.created_at, ttl |-> instance.ttl,
     real_time_status |-> get_ecs_service_status(instance, fail)]

\* instances.sort(key=created_at, reverse=True): newest first
SortedByCreatedAt(S) ==
    CHOOSE order \in Orderings(S) :
        \A k \in 1..(Cardinality(S) - 1) :
            instances[order[k]].created_at >= instances[order[k + 1]].created_at

\* json.dumps(data) of create_success_response has no default= hook: it raises
\* TypeError on a decimal.Decimal, which is what the table resource returns for
\* every number attribute of an item (here 'ttl')
JsonDumpsRaises(items) == \E item \in items : item.ttl = "Decimal"

\* GET /instances (instances.py): scan for administrators, query on UserIdIndex otherwise
list_instances(caller, fail) ==
    LET R(code, body, calls, raised) ==
            Respond("list_instances", caller, 0, NA, NA, code, body, calls, raised)
        read == IF caller.admin THEN "instances.scan" ELSE "instances.query"
        order == SortedByCreatedAt(Visible(caller))
        items == [k \in DOMAIN order |-> Enriched(order[k], instances[order[k]], fail)]
        calls == {read} \cup (IF Visible(caller) = {} THEN {} ELSE {"ecs.describe_services"})
    IN
    /\ deployment = "service"
    /\ UNCHANGED stateVars
    /\ IF read \in fail
       THEN R(500, ErrorBody("Failed to retrieve instances"), {read}, {read})
       ELSE IF JsonDumpsRaises({items[k] : k \in DOMAIN items})
       THEN R(500, ErrorBody("Failed to retrieve instances"), calls,
              (calls \cap fail) \cup {"json.dumps"})
       ELSE R(200, [kind |-> "list", items |-> items, count |-> Len(items),
                    user_filter |-> IF caller.admin THEN "all" ELSE "own"],
              calls, calls \cap fail)

\* the access check shared by the single-instance handlers of both files' service side:
\* get_item, then 404, then 403
Lookup(instance_id, caller, fail) ==
    IF "instances.get_item" \in fail THEN 500
    ELSE IF instance_id \notin DOMAIN instances THEN 404
    ELSE IF Forbidden(instances[instance_id], caller) THEN 403
    ELSE 200

LookupError(code, msg) ==
    CASE code = 500 -> ErrorBody(msg)
      [] code = 404 -> ErrorBody("Instance not found")
      [] code = 403 -> ErrorBody("Access denied")

\* GET /instances/{id} (instances.py)
get_instance(instance_id, caller, fail) ==
    LET R(code, body, calls, raised) ==
            Respond("get_instance", caller, instance_id, NA, Stored(instance_id, fail),
                    code, body, calls, raised)
        code == Lookup(instance_id, caller, fail)
        calls == {"instances.get_item", "ecs.describe_services"}
    IN
    /\ deployment = "service"
    /\ UNCHANGED stateVars
    /\ IF code # 200
       THEN R(code, LookupError(code, "Failed to retrieve instance"), {"instances.get_item"},
              {"instances.get_item"} \cap fail)
       ELSE LET instance == Enriched(instance_id, instances[instance_id], fail) IN
            IF JsonDumpsRaises({instance})
            THEN R(500, ErrorBody("Failed to retrieve instance"), calls,
                   (calls \cap fail) \cup {"json.dumps"})
            ELSE R(200, [kind |-> "instance"] @@ instance, calls, calls \cap fail)

\* f"/ecs/{ENVIRONMENT}-ollama" and f"ollama-{instance_id[:8]}"
LogGroupName == "/ecs/ENVIRONMENT-ollama"
LogStreamPrefix(instance_id) == <<"ollama-", instance_id>>

\* the events of the streams describe_log_streams returned: a stream whose
\* get_log_events raises contributes nothing
CollectLogs(streams, fail) ==
    IF "logs.get_log_events" \in fail THEN <<>> ELSE [k \in 1..streams |-> "event"]

\* GET /instances/{id}/logs; streams = number of log streams under the instance's
\* prefix when the log group exists
get_instance_logs(instance_id, caller, streams, fail) ==
    LET R(code, body, calls) ==
            Respond("get_instance_logs", caller, instance_id, NA, Stored(instance_id, fail),
                    code, body, calls, calls \cap fail)
        code == Lookup(instance_id, caller, fail)
    IN
    /\ deployment = "service"
    /\ UNCHANGED stateVars
    /\ IF code # 200
       THEN R(code, LookupError(code, "Failed to retrieve logs"), {"instances.get_item"})
       ELSE IF "logs.ResourceNotFoundException" \in fail
       THEN R(200, [kind |-> "logs", logs |-> <<>>, instance_id |-> instance_id,
                    message |-> "No logs available yet"],
              {"instances.get_item", "logs.describe_log_streams",
               "logs.ResourceNotFoundException"})
       ELSE IF "logs.describe_log_streams" \in fail
       THEN R(500, ErrorBody("Failed to retrieve logs"),
              {"instances.get_item", "logs.describe_log_streams"})
       ELSE R(200, [kind |-> "logs", logs |-> CollectLogs(streams, fail),
                    instance_id |-> instance_id, log_group |-> LogGroupName,
                    stream_prefix |-> LogStreamPrefix(instance_id)],
              {"instances.get_item", "logs.describe_log_streams"}
              \cup (IF streams > 0 THEN {"logs.get_log_events"} ELSE {}))

\* GET /instances/{id}/status
get_instance_status(instance_id, caller, fail) ==
    LET R(code, body, calls) ==
            Respond("get_instance_status", caller, instance_id, NA, Stored(instance_id, fail),
                    code, body, calls, calls \cap fail)
        code == Lookup(instance_id, caller, fail)
    IN
    /\ deployment = "service"
    /\ UNCHANGED <<nextId, tasks, services, targetGroups, taskDefs>>
    /\ IF code # 200
       THEN /\ R(code, LookupError(code, "Failed to retrieve instance status"), {"instances.get_item"})
            /\ UNCHANGED instances
       ELSE LET instance == instances[instance_id]
                status_info == [kind |-> "status", instance_id |-> instance_id,
                                stored_status |-> instance.status,
                                real_time_status |-> get_ecs_service_status(instance, fail)]
                differ == status_info.real_time_status # status_info.stored_status
            IN
            /\ R(200, status_info,
                 {"instances.get_item", "ecs.describe_services"}
                 \cup (IF differ THEN {"instances.update_item"} ELSE {}))
            /\ instances' = IF differ /\ "instances.update_item" \notin fail
                            THEN SetStatus(instances, instance_id, status_info.real_time_status,
                                           "last_status_update")
                            ELSE instances

\* ECS moves a service's running count towards the desired count, a task of it may
\* exit, a deleted service drains and is forgotten after a while
ServiceProgress(service_name) ==
    /\ resp = NoResp
    /\ service_name \in DOMAIN services
    /\ LET s == services[service_name] IN
       \/ /\ s.status = "ACTIVE" /\ s.runningCount < s.desiredCount
          /\ services' = [services EXCEPT ![service_name].runningCount = @ + 1]
       \/ /\ s.status \in {"ACTIVE", "DRAINING"} /\ s.runningCount > 0
          /\ services' = [services EXCEPT ![service_name].runningCount = @ - 1]
       \/ /\ s.status = "DRAINING" /\ s.runningCount = 0
          /\ services' = [services EXCEPT ![service_name].status = "INACTIVE"]
       \/ /\ s.status = "INACTIVE"
          /\ services' = DeleteItem(services, service_name)
    /\ UNCHANGED <<deployment, instances, nextId, tasks, targetGroups, taskDefs, resp, fn,
                   procs>>

\* ------------------------------------------------------------------------
Empty == [i \in {} |-> 0]

Init ==
    /\ deployment \in {"task", "service"}
    /\ instances = Empty
    /\ nextId = 0
    /\ tasks = Empty
    /\ services = Empty
    /\ targetGroups = {}
    /\ taskDefs = {}
    /\ resp = NoResp
    /\ fn = NoFn
    /\ procs = NoProcs

\* an invocation runs to completion before the next one starts: a handler starts only
\* when the previous response has been returned
Handler(A) == resp = NoResp /\ A /\ UNCHANGED <<deployment, fn, procs>>

\* the response is handed to the caller; the invocation is over
Return ==
    /\ resp # NoResp
    /\ resp' = NoResp
    /\ UNCHANGED <<deployment, instances, nextId, tasks, services, targetGroups, taskDefs, fn,
                   procs>>

\* The fault sets worth drawing: a handler stops at the first raising call it does not
\* catch (a primary call), so at most one primary call raises per invocation, while
\* any of the calls whose exceptions it catches (secondary calls) may raise.
Faults(primary, secondary) ==
    {s \cup p : s \in SUBSET secondary, p \in {{}} \cup {{x} : x \in primary}}

CreateInstance ==
    \E c \in Callers, m \in ModelIds \cup {None, NoBody}, t \in InstanceTypes :
      \E f \in Faults({"models.get_item", "ecs.run_task", "ecs.run_task.empty",
                       "instances.put_item"}, {}) :
        Handler(create_instance(c, m, t, f))
DeleteInstance ==
    \E i \in Ids, c \in Callers :
      \E f \in Faults({"instances.get_item", "instances.delete_item"}, {"ecs.stop_task"}) :
        Handler(delete_instance(i, c, f))
LfListInstances ==
    \E c \in Callers : \E f \in Faults({"instances.scan"}, {}) : Handler(lf_list_instances(c, f))
LfGetInstance ==
    \E i \in Ids, c \in Callers :
      \E f \in Faults({"instances.get_item", "instances.update_item"}, {"ecs.describe_tasks"}) :
        Handler(lf_get_instance(i, c, f))
StartModel ==
    \E c \in Callers, m \in ModelIds \cup {None, NoBody}, t \in InstanceTypes :
      \E f \in Faults({"models.get_item", "ecs.register_task_definition",
                       "elbv2.create_target_group", "ecs.create_service",
                       "instances.put_item"}, {"instances.query"}) :
        Handler(start_model(c, m, t, f))
StopModel ==
    \E i \in ServiceIds, c \in Callers :
      \E f \in Faults({"instances.get_item", "instances.update_item"},
                      {"ecs.update_service", "ecs.delete_service",
                       "elbv2.delete_target_group"}) :
        Handler(stop_model(i, c, f))
ListInstances ==
    \E c \in Callers :
      \E f \in Faults({"instances.scan", "instances.query"}, {"ecs.describe_services"}) :
        Handler(list_instances(c, f))
GetInstance ==
    \E i \in ServiceIds, c \in Callers :
      \E f \in Faults({"instances.get_item"}, {"ecs.describe_services"}) :
        Handler(get_instance(i, c, f))
GetInstanceLogs ==
    \E i \in ServiceIds, c \in Callers, n \in 0..MaxStreams :
      \E f \in Faults({"instances.get_item", "logs.describe_log_streams",
                       "logs.ResourceNotFoundException"}, {"logs.get_log_events"}) :
        Handler(get_instance_logs(i, c, n, f))
GetInstanceStatus ==
    \E i \in ServiceIds, c \in Callers :
      \E f \in Faults({"instances.get_item"}, {"ecs.describe_services", "instances.update_item"}) :
        Handler(get_instance_status(i, c, f))
EcsTask == \E a \in Ids : TaskProgress(a)
EcsService == \E n \in ServiceIds : ServiceProgress(n)

Next ==
    \/ CreateInstance
    \/ DeleteInstance
    \/ LfListInstances
    \/ LfGetInstance
    \/ StartModel
    \/ StopModel
    \/ ListInstances
    \/ GetInstance
    \/ GetInstanceLogs
    \/ GetInstanceStatus
    \/ EcsTask
    \/ EcsService
    \/ Return

Spec == Init /\ [][Next]_vars


\* ------------------------------------------------------------------------
\* Evaluation of the pure mappings on drawn inputs (SpecFn)
\* ------------------------------------------------------------------------
ServiceStates == {"ACTIVE", "DRAINING", "INACTIVE", "UNKNOWN"}

ProbeInstance == [user_id |-> "alice", model_id |-> "llama2:7b", service_name |-> 1,
                  ecs_service_arn |-> 1, target_group_arn |-> 1, task_definition_arn |-> 1,
                  status |-> "starting", instance_type |-> "fargate",
                  endpoint_url |-> EndpointUrl(1), created_at |-> Now(1), ttl |-> "Decimal",
                  last_status_update |-> None, stopped_at |-> None]

\* the lastStatus values of a task; "" stands for a task description without the key
TaskStates == {"PROVISIONING", "PENDING", "ACTIVATING", "RUNNING", "DEACTIVATING",
               "STOPPING", "DEPROVISIONING", "STOPPED", ""}

\* a record whose service ECS describes in any state, or does not know
\* the values body.get('instanceType', ...) can yield
Selectors == DOMAIN CostTable \cup large_cpu_types
             \cup {"fargate", "gpu", "ec2", "", JsonNull, JsonNumber, JsonArray, JsonObject}

\* the parameters start_ecs_task passes to run_task: networkConfiguration only for
\* FARGATE, placementConstraints only for EC2 with constraints configured
RunTaskParams(model_id, instance_type) ==
    LET task_config == get_task_configuration(model_id, instance_type) IN
    [launchType |-> task_config.launch_type,
     networkConfiguration |-> task_config.launch_type = "FARGATE",
     placementConstraints |-> IF task_config.launch_type = "EC2"
                              THEN task_config.placement_constraints ELSE {}]

\* the parameters start_model passes to create_service, with the placement
\* constraints create_task_definition puts in the task definition
\* (gpu_requirements = the catalog entry of the model has GPU requirements)
CreateServiceParams(instance_type, gpu_requirements) ==
    [launchType |-> IF instance_type = "fargate" THEN "FARGATE" ELSE "EC2",
     networkConfiguration |-> instance_type = "fargate",
     placementConstraints |-> IF instance_type = "gpu" /\ gpu_requirements
                              THEN {"g4dn.*"} ELSE {}]

Surfaces == {"start_ecs_task", "start_model"}

InitFn ==
    /\ instances = PutItem(Empty, 1, ProbeInstance)
    /\ nextId = 1
    /\ targetGroups = {1}
    /\ taskDefs = {1}
    /\ resp = NoResp
    /\ procs = NoProcs
    /\ \/ /\ \/ services = Empty
             \/ \E st \in ServiceStates, d \in 0..MaxCount, r \in 0..MaxCount :
                  services = PutItem(Empty, 1,
                                     [status |-> st, desiredCount |-> d, runningCount |-> r])
          /\ \E f \in SUBSET {"ecs.describe_services"} :
               fn = [name |-> "get_ecs_service_status", arg |-> f, out |-> None]
          /\ tasks = Empty
       \/ /\ services = Empty
          /\ \E t \in Selectors :
               fn = [name |-> "get_estimated_cost", arg |-> t, out |-> None]
          /\ tasks = Empty
       \/ /\ services = Empty
          /\ \/ tasks = Empty
             \/ \E st \in TaskStates : tasks = PutItem(Empty, 1, st)
          /\ \E f \in SUBSET {"ecs.describe_tasks"} :
               fn = [name |-> "get_ecs_task_status", arg |-> f, out |-> None]
       \/ /\ services = Empty
          /\ tasks = Empty
          /\ \E surface \in Surfaces, t \in Selectors, g \in BOOLEAN :
               fn = [name |-> surface,
                     arg |-> [instance_type |-> t, gpu_requirements |-> g],
                     out |-> [pending |-> TRUE]]
    /\ deployment = IF fn.name \in {"get_ecs_service_status", "start_model"}
                    THEN "service" ELSE "task"

EvalServiceStatus ==
    /\ fn.name = "get_ecs_service_status" /\ fn.out = None
    /\ fn' = [fn EXCEPT !.out = get_ecs_service_status(instances[1], fn.arg)]
    /\ UNCHANGED <<deployment, instances, nextId, tasks, services, targetGroups, taskDefs, resp,
                   procs>>

EvalCost ==
    /\ fn.name = "get_estimated_cost" /\ fn.out = None
    /\ fn' = [fn EXCEPT !.out = get_estimated_cost(fn.arg)]
    /\ UNCHANGED <<deployment, instances, nextId, tasks, services, targetGroups, taskDefs, resp,
                   procs>>

EvalProfile ==
    /\ fn.name \in Surfaces /\ fn.out = [pending |-> TRUE]
    /\ fn' = [fn EXCEPT !.out = IF fn.name = "start_ecs_task"
                                THEN RunTaskParams("llama2:7b", fn.arg.instance_type)
                                ELSE CreateServiceParams(fn.arg.instance_type,
                                                         fn.arg.gpu_requirements)]
    /\ UNCHANGED <<deployment, instances, nextId, tasks, services, targetGroups, taskDefs, resp,
                   procs>>

EvalTaskStatus ==
    /\ fn.name = "get_ecs_task_status" /\ fn.out = None
    /\ fn' = [fn EXCEPT !.out = get_ecs_task_status(1, fn.arg)]
    /\ UNCHANGED <<deployment, instances, nextId, tasks, services, targetGroups, taskDefs, resp,
                   procs>>

NextFn == EvalServiceStatus \/ EvalCost \/ EvalProfile \/ EvalTaskStatus

SpecFn == InitFn /\ [][NextFn]_vars

\* ------------------------------------------------------------------------
\* lambda_handler of the four files on an arbitrary event
\* ------------------------------------------------------------------------

Files == {"lambda_function", "models", "instances", "auth"}
Methods == {Absent, "GET", "POST", "DELETE"}
\* paths as their segments: <<"instances", "1">> is "/instances/1"
Paths == {Absent, <<"instances">>, <<"instances", "1">>, <<"instances", "1", "logs">>,
          <<"instances", "1", "status">>, <<"models">>, <<"models", "start">>,
          <<"models", "1", "stop">>, <<"auth", "login">>, <<"auth", "signup">>,
          <<"auth", "reset-password">>}
\* event['body']: not there, null, not JSON, JSON without the required fields, complete
Bodies == {Absent, "null", "text", "{}", "json"}
\* requestContext.authorizer: not there, null, carrying claims
Claims == {Absent, "null", "user"}
\* what the external services do: answer, raise, raise one of the exceptions a
\* handler names in an except clause of its own
Externals == {"ok", "raises", "named"}
\* the record or model the request addresses
Records == {"missing", "foreign", "own"}

Escaped == [escaped |-> TRUE]
\* the invocation has not returned yet
Pending == [pending |-> TRUE]

\* cors_headers() of lambda_function.py, the headers of create_*_response elsewhere
CorsHeaders(file) ==
    [ContentType |-> "application/json", AccessControlAllowOrigin |-> "*",
     AccessControlAllowHeaders |-> "Content-Type,Authorization",
     AccessControlAllowMethods |-> IF file = "lambda_function" THEN "GET,POST,DELETE,OPTIONS"
                                   ELSE "GET,POST,PUT,DELETE,OPTIONS"]

\* a response with a body (the keys of the JSON object in it), or without one
Response(file, statusCode, keys) ==
    [statusCode |-> statusCode, headers |-> CorsHeaders(file), body |-> keys]
EmptyResponse(file, statusCode) == [statusCode |-> statusCode, headers |-> CorsHeaders(file)]

\* {'error': ...} of a handler's own refusals
Refusal(file, statusCode) == Response(file, statusCode, {"error"})

\* the body of an except branch: lambda_function.py adds str(e) as 'message'
Caught(file) ==
    Response(file, 500, IF file = "lambda_function" THEN {"error", "message"} ELSE {"error"})

\* mutant: get_user_info_from_context is called before the try of lambda_handler
Enclosing_ClaimsOutside(point) ==
    CASE point = "route" -> "lambda_handler"
      [] point = "claims" -> "none"
      [] OTHER -> "handler"

\* the try statement that encloses each statement that can raise
Enclosing(point) ==
    CASE point \in {"route", "claims"} -> "lambda_handler"
      [] point \in {"body", "external", "respond"} -> "handler"

\* an exception raised at point: the nearest except Exception answers, if there is one
Raise(file, point) == IF Enclosing(point) = "none" THEN Escaped ELSE Caught(file)

StartsWith(path, segment) == Len(path) >= 2 /\ path[1] = segment
EndsWith(path, segment) == path[Len(path)] = segment

\* the if/elif chain of each lambda_handler
Route(file, method, path) ==
    CASE file = "lambda_function" ->
           IF path = <<"instances">> /\ method = "GET" THEN "lf_list_instances"
           ELSE IF path = <<"instances">> /\ method = "POST" THEN "create_instance"
           ELSE IF StartsWith(path, "instances") /\ method = "DELETE" THEN "delete_instance"
           ELSE IF StartsWith(path, "instances") /\ method = "GET" THEN "lf_get_instance"
           ELSE "none"
      [] file = "models" ->
           IF path = <<"models">> /\ method = "GET" THEN "list_models"
           ELSE IF path = <<"models", "start">> /\ method = "POST" THEN "start_model"
           ELSE IF StartsWith(path, "models") /\ EndsWith(path, "stop") /\ method = "DELETE"
           THEN "stop_model"
           ELSE "none"
      [] file = "instances" ->
           IF path = <<"instances">> /\ method = "GET" THEN "list_instances"
           ELSE IF StartsWith(path, "instances") /\ ~(Len(path) > 2) /\ method = "GET"
           THEN "get_instance"
           ELSE IF EndsWith(path, "logs") /\ method = "GET" THEN "get_instance_logs"
           ELSE IF EndsWith(path, "status") /\ method = "GET" THEN "get_instance_status"
           ELSE "none"
      [] file = "auth" ->
           IF path = <<"auth", "login">> /\ method = "POST" THEN "handle_login"
           ELSE IF path = <<"auth", "signup">> /\ method = "POST" THEN "handle_signup"
           ELSE IF path = <<"auth", "reset-password">> /\ method = "POST"
           THEN "handle_reset_password"
           ELSE "none"

BodyOps == {"create_instance", "start_model", "handle_login", "handle_signup",
            "handle_reset_password"}
RecordOps == {"delete_instance", "lf_get_instance", "stop_model", "get_instance",
              "get_instance_logs", "get_instance_status"}

\* the response of the handler the event is routed to
Handle(op, file, body, ext, record) ==
    IF op \in BodyOps
    THEN IF body \in {Absent, "null", "text"} THEN Raise(file, "body")
         ELSE IF body = "{}" THEN Refusal(file, 400)
         ELSE IF ext = "raises" \/ (ext = "named" /\ file # "auth") THEN Raise(file, "external")
         ELSE IF ext = "named"
         THEN Refusal(file, CASE op = "handle_login" -> 401
                              [] op = "handle_signup" -> 409
                              [] op = "handle_reset_password" -> 404)
         ELSE IF op \in {"create_instance", "start_model"} /\ record = "missing"
         THEN Refusal(file, 404)
         ELSE Response(file, IF op \in {"handle_login", "handle_reset_password"} THEN 200 ELSE 201,
                       {"data"})
    ELSE IF op \in RecordOps
    THEN IF ext # "ok" THEN Raise(file, "external")
         ELSE IF record = "missing" THEN Refusal(file, 404)
         ELSE IF record = "foreign" THEN Refusal(file, 403)
         ELSE IF op = "delete_instance" THEN EmptyResponse(file, 204)
         ELSE IF op = "get_instance" THEN Raise(file, "respond")
         ELSE Response(file, 200, {"data"})
    ELSE IF ext # "ok" THEN Raise(file, "external")
         ELSE IF op = "list_instances" /\ record # "missing" THEN Raise(file, "respond")
         ELSE Response(file, 200, {"data"})

lambda_handler(file, event, ext, record) ==
    IF event.httpMethod = Absent \/ event.path = Absent THEN Raise(file, "route")
    ELSE IF file # "auth" /\ event.claims = "null" THEN Raise(file, "claims")
    ELSE LET op == Route(file, event.httpMethod, event.path) IN
         IF op = "none" THEN Refusal(file, 404)
         ELSE Handle(op, file, event.body, ext, record)

InitEvent ==
    /\ deployment \in {"task", "service"}
    /\ instances = Empty
    /\ nextId = 0
    /\ tasks = Empty
    /\ services = Empty
    /\ targetGroups = {}
    /\ taskDefs = {}
    /\ resp = NoResp
    /\ procs = NoProcs
    /\ \E file \in Files, m \in Methods, p \in Paths, b \in Bodies, c \in Claims,
          ext \in Externals, record \in Records :
         /\ deployment = IF file = "lambda_function" THEN "task" ELSE "service"
         /\ fn = [name |-> "lambda_handler",
                  arg |-> [file |-> file, ext |-> ext, record |-> record,
                           event |-> [httpMethod |-> m, path |-> p, body |-> b, claims |-> c]],
                  out |-> Pending]

Invoke ==
    /\ fn.name = "lambda_handler" /\ fn.out = Pending
    /\ fn' = [fn EXCEPT !.out = lambda_handler(fn.arg.file, fn.arg.event, fn.arg.ext,
                                               fn.arg.record)]
    /\ UNCHANGED <<deployment, instances, nextId, tasks, services, targetGroups, taskDefs, resp,
                   procs>>

NextEvent == Invoke

SpecEvent == InitEvent /\ [][NextEvent]_vars

\* ------------------------------------------------------------------------
\* Concurrent invocations (SpecRace)
\* ------------------------------------------------------------------------
\* Lambda runs invocations concurrently.  Here each invocation is a process whose
\* record read ("read"), orchestration calls ("call") and record write ("write")
\* are separate atomic steps; the external calls answer.

Procs == 1..MaxProcs

\* the users whose invocations race
RaceCallers == {c \in Callers : ~c.admin}

TaskOps == {"create_instance", "lf_get_instance", "delete_instance"}
ServiceOps == {"start_model", "stop_model", "get_instance_status"}

Idle == [op |-> "none", caller |-> [user_id |-> None, admin |-> FALSE], id |-> 0,
         pc |-> "idle", code |-> 0, item |-> [status |-> NA], live |-> NA]

\* the invocation moves on, or returns
Goto(p, pc) == procs' = [procs EXCEPT ![p].pc = pc]
Done(p, code) == procs' = [procs EXCEPT ![p].pc = "done", ![p].code = code]

\* table.update_item(Key, SET ...) with no ConditionExpression: the store creates the
\* item from the key and the SET attributes when no item has the key
UpdateItem(table, id, status, stamp) ==
    IF id \in DOMAIN table THEN SetStatus(table, id, status, stamp)
    ELSE PutItem(table, id, [a \in {"status", stamp} |-> IF a = "status" THEN status ELSE "set"])

\* an invocation arrives
Begin(p) ==
    /\ procs[p].pc = "idle"
    /\ p > 1 => procs[p - 1].pc # "idle"
    /\ \E c \in RaceCallers, i \in Ids,
          op \in (IF deployment = "task" THEN TaskOps ELSE ServiceOps) :
         procs' = [procs EXCEPT ![p] = [Idle EXCEPT !.op = op, !.caller = c,
                     !.id = IF op \in {"create_instance", "start_model"} THEN 0 ELSE i,
                     !.pc = "read"]]
    /\ UNCHANGED <<deployment, instances, nextId, tasks, services, targetGroups, taskDefs,
                   resp, fn>>

\* get_item of the single-instance handlers, then the 404 and 403 tests; instance['user_id']
\* raises KeyError on an item without the attribute (500)
ReadRecord(p) ==
    /\ procs[p].pc = "read"
    /\ procs[p].op \in {"lf_get_instance", "delete_instance", "stop_model", "get_instance_status"}
    /\ LET id == procs[p].id IN
       IF id \notin DOMAIN instances THEN Done(p, 404)
       ELSE IF "user_id" \notin DOMAIN instances[id] THEN Done(p, 500)
       ELSE IF Forbidden(instances[id], procs[p].caller) THEN Done(p, 403)
       ELSE procs' = [procs EXCEPT ![p].pc = "call", ![p].item = instances[id]]
    /\ UNCHANGED <<deployment, instances, nextId, tasks, services, targetGroups, taskDefs,
                   resp, fn>>

\* create_instance: the catalog lookup and run_task, then put_item
RaceCreateInstance(p) ==
    /\ procs[p].op = "create_instance"
    /\ \/ /\ procs[p].pc = "read"
          /\ Goto(p, "call")
          /\ UNCHANGED <<instances, nextId, tasks>>
       \/ /\ procs[p].pc = "call"
          /\ nextId < MaxIds
          /\ nextId' = nextId + 1
          /\ tasks' = PutItem(tasks, nextId + 1, "PROVISIONING")
          /\ procs' = [procs EXCEPT ![p].pc = "write", ![p].id = nextId + 1,
                         ![p].item = [user_id |-> procs[p].caller.user_id,
                                      model_id |-> "llama2:7b", status |-> "starting",
                                      instance_type |-> "ml.m5.large", task_arn |-> nextId + 1,
                                      created_at |-> Now(nextId + 1), updated_at |-> "created",
                                      estimated_cost |-> get_estimated_cost("ml.m5.large"),
                                      endpoint |-> Endpoint(nextId + 1)]]
          /\ UNCHANGED instances
       \/ /\ procs[p].pc = "write"
          /\ instances' = PutItem(instances, procs[p].id, procs[p].item)
          /\ Done(p, 201)
          /\ UNCHANGED <<nextId, tasks>>
    /\ UNCHANGED <<deployment, services, targetGroups, taskDefs, resp, fn>>

\* get_instance of lambda_function.py: describe_tasks, then update_item if the live
\* status differs from the one read
RaceLfGetInstance(p) ==
    /\ procs[p].op = "lf_get_instance"
    /\ \/ /\ procs[p].pc = "call"
          /\ LET live == get_ecs_task_status(procs[p].item.task_arn, {}) IN
             IF live = procs[p].item.status THEN Done(p, 200)
             ELSE procs' = [procs EXCEPT ![p].pc = "write", ![p].live = live]
          /\ UNCHANGED instances
       \/ /\ procs[p].pc = "write"
          /\ instances' = UpdateItem(instances, procs[p].id, procs[p].live, "updated_at")
          /\ Done(p, 200)
    /\ UNCHANGED <<deployment, nextId, tasks, services, targetGroups, taskDefs, resp, fn>>

\* delete_instance: stop_task (its failure swallowed), then delete_item
RaceDeleteInstance(p) ==
    /\ procs[p].op = "delete_instance"
    /\ \/ /\ procs[p].pc = "call"
          /\ tasks' = IF StopTaskRaises(procs[p].item.task_arn, {}) THEN tasks
                      ELSE [tasks EXCEPT ![procs[p].item.task_arn] = StoppedByStopTask(@)]
          /\ Goto(p, "write")
          /\ UNCHANGED instances
       \/ /\ procs[p].pc = "write"
          /\ instances' = DeleteItem(instances, procs[p].id)
          /\ Done(p, 204)
          /\ UNCHANGED tasks
    /\ UNCHANGED <<deployment, nextId, services, targetGroups, taskDefs, resp, fn>>

\* start_model: the quota query; the task definition, target group and service;
\* then put_item
RaceStartModel(p) ==
    /\ procs[p].op = "start_model"
    /\ \/ /\ procs[p].pc = "read"
          /\ IF check_user_instance_limits(procs[p].caller.user_id, {})
             THEN Goto(p, "call") ELSE Done(p, 429)
          /\ UNCHANGED <<instances, nextId, services, targetGroups, taskDefs>>
       \/ /\ procs[p].pc = "call"
          /\ nextId < MaxIds
          /\ nextId' = nextId + 1
          /\ taskDefs' = taskDefs \cup {nextId + 1}
          /\ targetGroups' = targetGroups \cup {ServiceName(nextId + 1)}
          /\ services' = PutItem(services, ServiceName(nextId + 1),
                                 [status |-> "ACTIVE", desiredCount |-> 1, runningCount |-> 0])
          /\ procs' = [procs EXCEPT ![p].pc = "write", ![p].id = nextId + 1,
                         ![p].item = [user_id |-> procs[p].caller.user_id,
                                      model_id |-> "llama2:7b",
                                      service_name |-> ServiceName(nextId + 1),
                                      ecs_service_arn |-> ServiceName(nextId + 1),
                                      target_group_arn |-> ServiceName(nextId + 1),
                                      task_definition_arn |-> nextId + 1,
                                      status |-> "starting", instance_type |-> "fargate",
                                      endpoint_url |-> EndpointUrl(nextId + 1),
                                      created_at |-> Now(nextId + 1), ttl |-> "Decimal",
                                      last_status_update |-> None, stopped_at |-> None]]
          /\ UNCHANGED instances
       \/ /\ procs[p].pc = "write"
          /\ instances' = PutItem(instances, procs[p].id, procs[p].item)
          /\ Done(p, 201)
          /\ UNCHANGED <<nextId, services, targetGroups, taskDefs>>
    /\ UNCHANGED <<deployment, tasks, resp, fn>>

\* stop_model: the service stop and the target-group delete, then update_item
RaceStopModel(p) ==
    /\ procs[p].op = "stop_model"
    /\ \/ /\ procs[p].pc = "call"
          /\ services' = StopEcsService(procs[p].item.service_name, {})
          /\ targetGroups' = targetGroups \ {procs[p].item.target_group_arn}
          /\ Goto(p, "write")
          /\ UNCHANGED instances
       \/ /\ procs[p].pc = "write"
          /\ instances' = MarkStopped(instances, procs[p].id)
          /\ Done(p, 200)
          /\ UNCHANGED <<services, targetGroups>>
    /\ UNCHANGED <<deployment, nextId, tasks, taskDefs, resp, fn>>

\* get_instance_status: describe_services, then update_item if the live status differs
\* from the one read
RaceGetInstanceStatus(p) ==
    /\ procs[p].op = "get_instance_status"
    /\ \/ /\ procs[p].pc = "call"
          /\ LET live == get_ecs_service_status(procs[p].item, {}) IN
             IF live = procs[p].item.status THEN Done(p, 200)
             ELSE procs' = [procs EXCEPT ![p].pc = "write", ![p].live = live]
          /\ UNCHANGED instances
       \/ /\ procs[p].pc = "write"
          /\ instances' = UpdateItem(instances, procs[p].id, procs[p].live,
                                     "last_status_update")
          /\ Done(p, 200)
    /\ UNCHANGED <<deployment, nextId, tasks, services, targetGroups, taskDefs, resp, fn>>

InitRace ==
    /\ deployment \in {"task", "service"}
    /\ instances = Empty
    /\ nextId = 0
    /\ tasks = Empty
    /\ services = Empty
    /\ targetGroups = {}
    /\ taskDefs = {}
    /\ resp = NoResp
    /\ fn = NoFn
    /\ procs = [p \in Procs |-> Idle]

Arrive == \E p \in Procs : Begin(p)
Read == \E p \in Procs : ReadRecord(p)
StepCreateInstance == \E p \in Procs : RaceCreateInstance(p)
StepLfGetInstance == \E p \in Procs : RaceLfGetInstance(p)
StepDeleteInstance == \E p \in Procs : RaceDeleteInstance(p)
StepStartModel == \E p \in Procs : RaceStartModel(p)
StepStopModel == \E p \in Procs : RaceStopModel(p)
StepGetInstanceStatus == \E p \in Procs : RaceGetInstanceStatus(p)

NextRace ==
    \/ Arrive
    \/ Read
    \/ StepCreateInstance
    \/ StepLfGetInstance
    \/ StepDeleteInstance
    \/ StepStartModel
    \/ StepStopModel
    \/ StepGetInstanceStatus
    \/ EcsTask
    \/ EcsService

SpecRace == InitRace /\ [][NextRace]_vars

\* ------------------------------------------------------------------------
\* Claims
\* ------------------------------------------------------------------------
\* A claim that names no failure of an external call speaks of the invocations in
\* which the store answers; spec section 7 maps every other external error of a
\* primary call to Internal (500).

SingleInstanceOps == {"lf_get_instance", "get_instance", "get_instance_logs",
                      "get_instance_status", "delete_instance", "stop_model"}

\* the step is an invocation by a caller who neither owns the addressed record nor
\* is an administrator
C1_Case ==
    /\ resp'.op \in SingleInstanceOps
    /\ resp'.id \in DOMAIN instances
    /\ instances[resp'.id].user_id # resp'.caller.user_id
    /\ ~resp'.caller.admin

\* C1: get_instance, get_instance_logs, get_instance_status, delete_instance and
\* stop_model invoked on a record by a caller who is neither its owner nor an
\* administrator answer 403 (the record read answering), return an error body with
\* none of the record's data, leave the store and the orchestration service as they
\* were, and issue no call but the record read.
C1_ForbiddenIsolation ==
    [][C1_Case =>
        /\ "instances.get_item" \notin resp'.raised => resp'.code = 403
        /\ resp'.code \in {403, 500}
        /\ resp'.body.kind = "error"
        /\ DOMAIN resp'.body = {"kind", "error"}
        /\ resp'.calls = {"instances.get_item"}
        /\ UNCHANGED stateVars]_vars

C1_Witness ==
    /\ resp.op = "delete_instance" /\ resp.code = 403
    /\ resp.id \in DOMAIN instances
    /\ instances[resp.id].user_id # resp.caller.user_id
    /\ tasks[instances[resp.id].task_arn] = "RUNNING"

ListOps == {"list_instances", "lf_list_instances"}

ListedIds ==
    IF resp.op = "list_instances"
    THEN {resp.body.items[k].instance_id : k \in DOMAIN resp.body.items}
    ELSE {resp.body.items[k].id : k \in DOMAIN resp.body.items}

\* C2: list_instances (both files) answers 200 when its scan/query answers, listing
\* every record for an administrator and exactly the caller's own records otherwise.
C2_ListVisibility ==
    resp.op \in ListOps =>
        /\ resp.raised \cap {"instances.scan", "instances.query"} = {} => resp.code = 200
        /\ resp.code = 200 =>
             ListedIds = IF resp.caller.admin THEN DOMAIN instances
                         ELSE {i \in DOMAIN instances :
                                 instances[i].user_id = resp.caller.user_id}

CreateOps == {"create_instance", "start_model"}
ProvisioningCalls == {"ecs.run_task", "ecs.register_task_definition",
                      "elbv2.create_target_group", "ecs.create_service"}

\* C3: a create request (create_instance, start_model) whose model identifier is
\* not in the Model Catalog answers 404 (the catalog lookup answering), persists no
\* record and issues no provisioning call.
C3_UnknownModel ==
    [][(resp'.op \in CreateOps /\ resp'.model_id \in ModelIds \ Catalog) =>
        /\ "models.get_item" \notin resp'.raised => resp'.code = 404
        /\ resp'.code \in {404, 500}
        /\ resp'.calls \cap (ProvisioningCalls \cup WriteCalls) = {}
        /\ UNCHANGED stateVars]_vars

C3_Witness ==
    /\ resp.op = "start_model" /\ resp.code = 404 /\ resp.model_id = "ghost:1b"
    /\ instances = Empty /\ services = Empty


\* the records of a user that count against the limit
ActiveOf(user_id) ==
    {i \in DOMAIN instances : /\ instances[i].user_id = user_id
                              /\ instances[i].status \in {"starting", "running"}}

\* C4: a create request for a catalogued model by a caller who already owns
\* MAX_INSTANCES_PER_USER records in "starting"/"running" answers 429, persists no
\* record and creates no orchestration resource (no external call raising).
C4_QuotaEnforced ==
    [][(/\ resp'.op \in CreateOps
        /\ resp'.model_id \in Catalog
        /\ Cardinality(ActiveOf(resp'.caller.user_id)) >= MAX_INSTANCES_PER_USER
        /\ resp'.raised = {}) =>
        /\ resp'.code = 429
        /\ UNCHANGED stateVars]_vars

\* the orchestration resource a record references is running or being kept running
LiveHandle(instance) ==
    IF deployment = "task"
    THEN /\ instance.task_arn \in DOMAIN tasks
         /\ tasks[instance.task_arn] \in {"PROVISIONING", "PENDING", "RUNNING"}
    ELSE /\ instance.service_name \in DOMAIN services
         /\ services[instance.service_name].status = "ACTIVE"
         /\ services[instance.service_name].desiredCount > 0

\* C5: in every reachable state, a record whose persisted status is "stopped"
\* references no live orchestration handle.
C5_StoppedHoldsNoLiveHandle ==
    \A i \in DOMAIN instances :
        instances[i].status = "stopped" => ~LiveHandle(instances[i])

\* C6: on describe_services' answer, get_ecs_service_status maps: no service ->
\* "stopped"; ACTIVE with desired = 0 -> "stopped"; ACTIVE with running = desired > 0
\* -> "running"; ACTIVE with 0 < running < desired -> "starting"; ACTIVE with
\* running = 0 < desired -> "pending"; DRAINING -> "stopping"; any other lifecycle
\* state -> "unknown".
C6_ServiceStatusMapping ==
    (fn.name = "get_ecs_service_status" /\ fn.out # None /\ fn.arg = {}) =>
        IF 1 \notin DOMAIN services THEN fn.out = "stopped"
        ELSE LET st == services[1].status
                 d  == services[1].desiredCount
                 r  == services[1].runningCount
             IN /\ (st = "ACTIVE" /\ d = 0) => fn.out = "stopped"
                /\ (st = "ACTIVE" /\ r = d /\ d > 0) => fn.out = "running"
                /\ (st = "ACTIVE" /\ 0 < r /\ r < d) => fn.out = "starting"
                /\ (st = "ACTIVE" /\ r = 0 /\ d > 0) => fn.out = "pending"
                /\ st = "DRAINING" => fn.out = "stopping"
                /\ st \notin {"ACTIVE", "DRAINING"} => fn.out = "unknown"

C6_Witness ==
    /\ fn.name = "get_ecs_service_status" /\ fn.arg = {} /\ fn.out = "starting"
    /\ services[1] = [status |-> "ACTIVE", desiredCount |-> 2, runningCount |-> 1]

\* C7: create_instance for "llama2:7b" with no instanceType answers 201 with status
\* "starting", a non-empty endpoint and a non-zero cost, and persists the record; a
\* get_instance of a created record by a caller who neither owns it nor is an
\* administrator answers 403; a get_instance by an administrator answers 200 with
\* the record's fields (no external call of the primary path raising).
C7_EndToEnd ==
    /\ (resp.op = "create_instance" /\ resp.model_id = "llama2:7b" /\ resp.raised = {}) =>
          /\ resp.code = 201
          /\ resp.body.status = "starting"
          /\ Len(resp.body.endpoint) > 0
          /\ resp.body.estimatedCost \notin {"$0.00/hour", ""}
          /\ resp.body.instanceType = "ml.m5.large"
          /\ resp.body.id \in DOMAIN instances
    /\ (resp.op = "lf_get_instance" /\ resp.id \in DOMAIN instances
        /\ "instances.get_item" \notin resp.raised) =>
          IF instances[resp.id].user_id # resp.caller.user_id /\ ~resp.caller.admin
          THEN resp.code = 403
          ELSE "instances.update_item" \notin resp.raised =>
                 /\ resp.code = 200
                 /\ resp.body.id = resp.id
                 /\ resp.body.modelId = instances[resp.id].model_id
                 /\ resp.body.status = instances[resp.id].status
                 /\ resp.body.instanceType = instances[resp.id].instance_type
                 /\ resp.body.estimatedCost = instances[resp.id].estimated_cost
                 /\ resp.body.endpoint = instances[resp.id].endpoint

C7_Witness ==
    /\ resp.op = "lf_get_instance" /\ resp.code = 200 /\ resp.caller.admin
    /\ instances[resp.id].user_id # resp.caller.user_id
    /\ resp.body.modelId = "llama2:7b" /\ resp.body.estimatedCost = "$0.12/hour"

\* the caller owns the record the step addresses, or is an administrator
Authorized ==
    /\ resp'.id \in DOMAIN instances
    /\ instances[resp'.id].user_id = resp'.caller.user_id \/ resp'.caller.admin

\* C8: stop_model by an authorized caller on a record that is already "stopped"
\* answers 200 with status "stopped" (the record read and update answering), and
\* the record stays "stopped" in every case.
C8_StopIdempotent ==
    [][(resp'.op = "stop_model" /\ Authorized /\ instances[resp'.id].status = "stopped") =>
        /\ resp'.raised \cap {"instances.get_item", "instances.update_item"} = {} =>
             (resp'.code = 200 /\ resp'.body.status = "stopped")
        /\ resp'.code \in {200, 500}
        /\ resp'.id \in DOMAIN instances'
        /\ instances'[resp'.id].status = "stopped"]_vars

C8_Witness ==
    /\ resp.op = "stop_model" /\ resp.stored = "stopped" /\ resp.code = 200
    /\ "ecs.update_service" \in resp.raised
    /\ instances[resp.id].status = "stopped"

\* C9: for an existing record and an authorized caller, delete_instance answers 204
\* and stop_model 200 with status "stopped" whether or not the orchestration stop
\* call and the target-group delete raise, provided the record read and the record
\* delete/update answer; afterwards the record is absent (delete_instance) or
\* "stopped" (stop_model).
C9_StopSucceedsDespiteInfraFailure ==
    [][(/\ resp'.op \in {"delete_instance", "stop_model"}
        /\ Authorized
        /\ resp'.raised \cap {"instances.get_item", "instances.delete_item",
                              "instances.update_item"} = {}) =>
        IF resp'.op = "delete_instance"
        THEN resp'.code = 204 /\ resp'.id \notin DOMAIN instances'
        ELSE /\ resp'.code = 200 /\ resp'.body.status = "stopped"
             /\ instances'[resp'.id].status = "stopped"]_vars

C9_Witness ==
    /\ resp.op = "delete_instance" /\ resp.code = 204
    /\ "ecs.stop_task" \in resp.raised
    /\ resp.id \notin DOMAIN instances
    /\ resp.id \in DOMAIN tasks /\ tasks[resp.id] = "RUNNING"

PreWriteCalls == {"models.get_item", "instances.query", "ecs.register_task_definition",
                  "elbv2.create_target_group", "ecs.create_service", "ecs.run_task",
                  "ecs.run_task.empty"}

\* C10: a create request that fails before the record is written (the model lookup
\* raises or finds nothing, the quota check refuses or its query raises, the task
\* definition, target group or service creation raises, run_task raises or answers
\* with no task) answers with an error and leaves the Instance table unchanged.
C10_FailedCreateLeavesStore ==
    [][(/\ resp'.op \in CreateOps
        /\ resp'.raised \cap PreWriteCalls # {} \/ resp'.code \in {404, 429}) =>
        /\ resp'.code \in {404, 429, 500}
        /\ resp'.body.kind = "error"
        /\ instances' = instances]_vars

C10_Witness ==
    /\ resp.op = "start_model" /\ resp.code = 500
    /\ "ecs.create_service" \in resp.raised
    /\ instances = Empty /\ targetGroups = {1} /\ services = Empty


CompensatingCalls == {"ecs.stop_task", "ecs.update_service", "ecs.delete_service",
                      "elbv2.delete_target_group"}

\* C11: a create request whose put_item raises after the provisioning call succeeded
\* answers 500 and issues no compensating stop/delete call: the task or service just
\* created is live and no Instance record tracks it.
C11_OrphanOnPutFailure ==
    [][(resp'.op \in CreateOps /\ "instances.put_item" \in resp'.raised) =>
        /\ resp'.code = 500 /\ resp'.body.kind = "error"
        /\ resp'.calls \cap CompensatingCalls = {}
        /\ instances' = instances
        /\ nextId' = nextId + 1
        /\ nextId' \notin DOMAIN instances'
        /\ IF resp'.op = "create_instance"
           THEN /\ nextId' \in DOMAIN tasks' \ DOMAIN tasks
                /\ tasks'[nextId'] = "PROVISIONING"
           ELSE /\ nextId' \in DOMAIN services' \ DOMAIN services
                /\ services'[nextId'].status = "ACTIVE"
                /\ services'[nextId'].desiredCount = 1]_vars

C11_Witness ==
    /\ resp.op = "start_model" /\ resp.code = 500 /\ "instances.put_item" \in resp.raised
    /\ instances = Empty
    /\ 1 \in DOMAIN services /\ services[1].status = "ACTIVE" /\ services[1].desiredCount = 1


\* C12: no exception escapes a handler invocation: for every event (httpMethod or path
\* missing, body missing, null or not JSON, claims missing, an external call raising)
\* each lambda_handler returns a response with a statusCode and the CORS headers, and
\* the body of every failure response is an object {error} or {error, message}.
C12_NoExceptionEscapes ==
    (fn.name = "lambda_handler" /\ fn.out # Pending) =>
        /\ fn.out # Escaped
        /\ {"statusCode", "headers"} \subseteq DOMAIN fn.out
        /\ fn.out.statusCode \in 200..599
        /\ fn.out.headers.AccessControlAllowOrigin = "*"
        /\ {"AccessControlAllowHeaders", "AccessControlAllowMethods"}
              \subseteq DOMAIN fn.out.headers
        /\ fn.out.statusCode >= 400 =>
              /\ "body" \in DOMAIN fn.out
              /\ fn.out.body \in {{"error"}, {"error", "message"}}

C12_Witness ==
    /\ fn.name = "lambda_handler" /\ fn.out # Pending
    /\ fn.arg.file = "models" /\ fn.arg.event.claims = "null"
    /\ fn.arg.event.httpMethod = "POST" /\ fn.arg.event.path = <<"models", "start">>
    /\ fn.out = Response("models", 500, {"error"})


ReadOps == {"lf_get_instance", "get_instance", "get_instance_status"}
DescribeCalls == {"ecs.describe_tasks", "ecs.describe_services"}
StoreCalls == WriteCalls \cup {"instances.get_item", "instances.scan", "instances.query"}

\* the status the orchestration service reports for the record's task or service
LiveStatus(instance) ==
    IF deployment = "task" THEN get_ecs_task_status(instance.task_arn, {})
    ELSE get_ecs_service_status(instance, {})

\* the status the response of a read carries
ReportedStatus(r) == IF r.op = "lf_get_instance" THEN r.body.status ELSE r.body.real_time_status

\* C13: an authorized get_instance / get_instance_status (no external call raising)
\* that resolves a live status different from the persisted one writes the live
\* status to the record before answering 200 with it; when the two are equal it
\* issues no write.
C13_ReconcileWrites ==
    [][(/\ resp'.op \in ReadOps
        /\ Authorized
        /\ resp'.raised \cap (StoreCalls \cup DescribeCalls) = {}) =>
        IF LiveStatus(instances[resp'.id]) # instances[resp'.id].status
        THEN /\ "instances.update_item" \in resp'.calls
             /\ instances'[resp'.id].status = LiveStatus(instances[resp'.id])
             /\ resp'.code = 200
             /\ ReportedStatus(resp') = LiveStatus(instances[resp'.id])
        ELSE /\ "instances.update_item" \notin resp'.calls
             /\ instances' = instances]_vars

\* C14: when the describe call raises during an authorized get_instance or
\* get_instance_status, or during list_instances (the store answering), the answer
\* is 200, every reported status is the persisted one and the records are unchanged.
C14_DescribeFailureKeepsStatus ==
    [][(/\ resp'.op \in ReadOps \cup {"list_instances"}
        /\ resp'.op \in ReadOps => Authorized
        /\ resp'.raised \cap DescribeCalls # {}
        /\ resp'.raised \cap StoreCalls = {}) =>
        /\ instances' = instances
        /\ resp'.code = 200
        /\ IF resp'.op = "list_instances"
           THEN \A k \in DOMAIN resp'.body.items :
                  resp'.body.items[k].real_time_status = resp'.body.items[k].status
           ELSE ReportedStatus(resp') = instances[resp'.id].status]_vars

\* C15: when the write-back of the reconciled status raises during an authorized
\* get_instance or get_instance_status, the answer is still 200 and the record keeps
\* its persisted status.
C15_WriteBackFailureTolerated ==
    [][(/\ resp'.op \in {"lf_get_instance", "get_instance_status"}
        /\ Authorized
        /\ "instances.update_item" \in resp'.raised) =>
        /\ resp'.code = 200
        /\ instances' = instances]_vars

\* C16: a record that stop_model has marked "stopped" keeps the persisted status
\* "stopped" through every later step.
C16_StoppedIsTerminal ==
    [][\A i \in DOMAIN instances \cap DOMAIN instances' :
         (/\ deployment = "service"
          /\ instances[i].stopped_at # None
          /\ instances[i].status = "stopped") => instances'[i].status = "stopped"]_vars

\* C17: stop_model and delete_instance answer 404 for an identifier with no record
\* and 403 for a record the caller neither owns nor administers (the record read
\* answering); in both cases the record read is the only call and nothing changes.
C17_StopRefusals ==
    [][(/\ resp'.op \in {"stop_model", "delete_instance"}
        /\ "instances.get_item" \notin resp'.raised
        /\ \/ resp'.id \notin DOMAIN instances
           \/ /\ instances[resp'.id].user_id # resp'.caller.user_id
              /\ ~resp'.caller.admin) =>
        /\ resp'.code = IF resp'.id \notin DOMAIN instances THEN 404 ELSE 403
        /\ resp'.body.kind = "error"
        /\ resp'.calls = {"instances.get_item"}
        /\ UNCHANGED stateVars]_vars

C17_Witness ==
    /\ resp.op = "delete_instance" /\ resp.code = 404
    /\ resp.id \notin DOMAIN instances
    /\ \E i \in DOMAIN instances : tasks[instances[i].task_arn] = "RUNNING"


\* C18: get_estimated_cost maps every selector of the rate table to its rate string
\* and every other selector to '$0.00/hour', never to an error.
C18_CostLookupTotal ==
    (fn.name = "get_estimated_cost" /\ fn.out # None) =>
        /\ fn.arg = "ml.m5.large" => fn.out = "$0.12/hour"
        /\ fn.arg = "ml.m5.xlarge" => fn.out = "$0.24/hour"
        /\ fn.arg = "ml.m5.2xlarge" => fn.out = "$0.48/hour"
        /\ fn.arg = "ml.g4dn.xlarge" => fn.out = "$0.71/hour"
        /\ fn.arg = "ml.g4dn.2xlarge" => fn.out = "$1.42/hour"
        /\ fn.arg = "ml.p3.2xlarge" => fn.out = "$3.06/hour"
        /\ fn.arg \notin {"ml.m5.large", "ml.m5.xlarge", "ml.m5.2xlarge", "ml.g4dn.xlarge",
                          "ml.g4dn.2xlarge", "ml.p3.2xlarge"} => fn.out = "$0.00/hour"

\* C19: a create request without a usable model identifier (the field missing, or
\* the body missing or null) answers 400 and issues no catalog lookup, no
\* provisioning call and no record write.
C19_MissingModelId ==
    [][(resp'.op \in CreateOps /\ resp'.model_id \in {None, NoBody}) =>
        /\ resp'.code = 400
        /\ resp'.calls = {}
        /\ UNCHANGED stateVars]_vars

\* the creation time of an entry of a list response
CreatedAt(item) == IF resp.op = "list_instances" THEN item.created_at ELSE item.startedAt

\* C20: list_instances (both files) returns its entries newest first: of any two
\* adjacent entries the earlier one's created_at is >= the later one's.
C20_ListNewestFirst ==
    (resp.op \in ListOps /\ resp.code = 200) =>
        \A k \in 1..(Len(resp.body.items) - 1) :
            CreatedAt(resp.body.items[k]) >= CreatedAt(resp.body.items[k + 1])


\* C21: in list_instances (instances.py), when the live-status lookup of an entry
\* raises (the scan/query answering), the answer is still 200, lists every record
\* visible to the caller, and every entry carries its persisted status as
\* real_time_status.
C21_EnrichmentFailureTolerated ==
    (/\ resp.op = "list_instances"
     /\ "ecs.describe_services" \in resp.raised
     /\ resp.raised \cap {"instances.scan", "instances.query"} = {}) =>
        /\ resp.code = 200
        /\ ListedIds = Visible(resp.caller)
        /\ \A k \in DOMAIN resp.body.items :
             resp.body.items[k].real_time_status = instances[resp.body.items[k].instance_id].status


\* C22: for an existing record and an authorized caller (the record read
\* answering), get_instance_logs answers 200 with an empty logs list and an
\* explanatory note both when the log group does not exist and when it exists
\* with no stream under the instance's prefix.
C22_NoLogsIsNotAnError ==
    (/\ resp.op = "get_instance_logs"
     /\ resp.id \in DOMAIN instances
     /\ instances[resp.id].user_id = resp.caller.user_id \/ resp.caller.admin
     /\ "logs.describe_log_streams" \in resp.calls
     /\ "logs.describe_log_streams" \notin resp.raised
     /\ "logs.get_log_events" \notin resp.calls) =>
        /\ resp.code = 200
        /\ resp.body.logs = <<>>
        /\ "message" \in DOMAIN resp.body


\* the identifier a 201 response returns
ReturnedId(r) == IF r.op = "create_instance" THEN r.body.id ELSE r.body.instance_id

\* C23: a create (create_instance, start_model) answering 201 leaves exactly one new
\* record in the Instance table: keyed by the returned id, owned by the caller,
\* referencing the requested model, with status "starting", holding the task or
\* service ARN the provisioning call of this invocation returned and an endpoint
\* that is a fixed function of the id; every record that existed before is unchanged.
C23_CreateAddsOneRecord ==
    [][(resp'.op \in CreateOps /\ resp'.code = 201) =>
        LET id == ReturnedId(resp') IN
        /\ id \notin DOMAIN instances
        /\ DOMAIN instances' = DOMAIN instances \cup {id}
        /\ \A i \in DOMAIN instances : instances'[i] = instances[i]
        /\ instances'[id].user_id = resp'.caller.user_id
        /\ instances'[id].model_id = resp'.model_id
        /\ instances'[id].status = "starting"
        /\ IF resp'.op = "create_instance"
           THEN /\ instances'[id].task_arn \in DOMAIN tasks' \ DOMAIN tasks
                /\ instances'[id].endpoint = <<"https://", id, ".", "DOMAIN_NAME", "/api">>
                /\ resp'.body.endpoint = instances'[id].endpoint
           ELSE /\ instances'[id].ecs_service_arn \in DOMAIN services' \ DOMAIN services
                /\ instances'[id].endpoint_url = <<"https://ollama-", id, ".", "DOMAIN_NAME">>
                /\ resp'.body.endpoint_url = instances'[id].endpoint_url]_vars

C23_Witness ==
    /\ resp.op = "create_instance" /\ resp.code = 201 /\ resp.body.id = 2
    /\ DOMAIN instances = {1, 2}
    /\ instances[1].user_id = "alice" /\ instances[2].user_id = "bob"
    /\ instances[1].status = "running" /\ instances[2].task_arn = 2


\* C27: with the store reads and writes of concurrent start_model, stop_model and
\* get_instance_status invocations interleaved, no user ever owns more than
\* MAX_INSTANCES_PER_USER records with status "starting" or "running".
C27_QuotaUnderInterleaving ==
    deployment = "service" =>
        \A u \in Users : Cardinality(ActiveOf(u)) <= MAX_INSTANCES_PER_USER

\* C28: once a delete_instance has returned 204 for an id, no record with that id
\* exists in the Instance table, whatever a concurrent get_instance on the id does.
C28_DeletedStaysDeleted ==
    \A p \in DOMAIN procs :
        (procs[p].op = "delete_instance" /\ procs[p].pc = "done" /\ procs[p].code = 204)
            => procs[p].id \notin DOMAIN instances


\* the attribute that holds a record's orchestration handle
HandleAttr == IF deployment = "task" THEN "task_arn" ELSE "ecs_service_arn"

\* C24: in every reachable state, each record that is not "stopped" holds exactly
\* one orchestration handle (task ARN, or service ARN), that handle was returned by
\* the successful provisioning call of the create invocation for that record, and no
\* other record holds the same handle.
C24_OneHandlePerInstance ==
    \A i \in DOMAIN instances :
        instances[i].status # "stopped" =>
            /\ HandleAttr \in DOMAIN instances[i]
            /\ \E p \in DOMAIN procs :
                 /\ procs[p].op \in CreateOps /\ procs[p].pc \in {"write", "done"}
                 /\ procs[p].id = i
                 /\ procs[p].item[HandleAttr] = instances[i][HandleAttr]
            /\ \A j \in DOMAIN instances \ {i} :
                 HandleAttr \in DOMAIN instances[j] =>
                     instances[j][HandleAttr] # instances[i][HandleAttr]


\* the selectors that name a GPU-bearing or a large-CPU size
PinnedSelectors == {"ml.g4dn.xlarge", "ml.g4dn.2xlarge", "ml.p3.2xlarge", "gpu",
                    "ml.m5.2xlarge", "ml.m5.4xlarge", "ml.c5.4xlarge"}

\* C25: on both create surfaces (start_ecs_task with get_task_configuration, and
\* start_model) the deployment profile depends on the selector alone: a GPU-bearing or
\* large-CPU selector gives launch type EC2 with a placement constraint and no network
\* configuration; every other selector, known or not, gives FARGATE with a network
\* configuration and no placement constraint.
C25_DeploymentProfile ==
    (fn.name \in Surfaces /\ fn.out # [pending |-> TRUE]) =>
        /\ (fn.arg.instance_type \in PinnedSelectors /\ fn.out.launchType = "EC2") =>
              /\ fn.out.placementConstraints # {}
              /\ ~fn.out.networkConfiguration
        /\ fn.arg.instance_type \notin PinnedSelectors =>
              /\ fn.out.launchType = "FARGATE"
              /\ fn.out.networkConfiguration
              /\ fn.out.placementConstraints = {}
        /\ fn.arg.instance_type \in PinnedSelectors \ {"gpu"} => fn.out.launchType = "EC2"


StatusEnum == {"starting", "running", "stopping", "stopped", "pending", "unknown"}

\* C26: get_ecs_task_status always returns a member of {starting, running, stopping,
\* stopped, pending, unknown}; when describe_tasks answers, a task with lastStatus
\* PENDING gives "starting", RUNNING "running", STOPPING "stopping", STOPPED
\* "stopped", any other lastStatus "unknown", and a task that is not reported gives
\* "stopped".
C26_TaskStatusMapping ==
    (fn.name = "get_ecs_task_status" /\ fn.out # None) =>
        /\ fn.out \in StatusEnum
        /\ fn.arg = {} =>
             IF 1 \notin DOMAIN tasks THEN fn.out = "stopped"
             ELSE /\ tasks[1] = "PENDING" => fn.out = "starting"
                  /\ tasks[1] = "RUNNING" => fn.out = "running"
                  /\ tasks[1] = "STOPPING" => fn.out = "stopping"
                  /\ tasks[1] = "STOPPED" => fn.out = "stopped"
                  /\ tasks[1] \notin {"PENDING", "RUNNING", "STOPPING", "STOPPED"}
                       => fn.out = "unknown"

C26_Witness ==
    /\ fn.name = "get_ecs_task_status" /\ fn.arg = {} /\ fn.out = "starting"
    /\ 1 \in DOMAIN tasks /\ tasks[1] = "PENDING"


\* C29: whenever start_model answers with an error, no task definition, target group
\* or ECS service created by that invocation remains; in particular nothing remains
\* when create_service raises after the task definition and the target group were
\* created.
C29_FailedStartLeavesNothing ==
    [][(resp'.op = "start_model" /\ resp'.code >= 400) =>
        /\ "ecs.create_service" \in resp'.raised =>
             (taskDefs' = taskDefs /\ targetGroups' = targetGroups)
        /\ taskDefs' = taskDefs
        /\ targetGroups' = targetGroups
        /\ services' = services]_vars


\* the timestamp attribute each updating handler writes beside the status
StampOf(op) ==
    CASE op = "lf_get_instance" -> "updated_at"
      [] op = "get_instance_status" -> "last_status_update"
      [] op = "stop_model" -> "stopped_at"
      [] OTHER -> NA

\* C30: a step that changes an existing record is the update of get_instance,
\* get_instance_status or stop_model on the record the request addresses, and it
\* changes nothing but the status and that handler's timestamp attribute: owner,
\* model reference, orchestration handles, endpoint and every other attribute of the
\* record, and every other record, are unchanged.
C30_UpdateFrame ==
    [][\A i \in DOMAIN instances \cap DOMAIN instances' :
         instances'[i] # instances[i] =>
            /\ resp'.op \in {"lf_get_instance", "get_instance_status", "stop_model"}
            /\ resp'.id = i
            /\ DOMAIN instances'[i] = DOMAIN instances[i]
            /\ \A a \in DOMAIN instances[i] \ {"status", StampOf(resp'.op)} :
                 instances'[i][a] = instances[i][a]]_vars

C30_Witness ==
    /\ resp.op = "get_instance_status" /\ resp.code = 200
    /\ "instances.update_item" \in resp.calls \ resp.raised
    /\ resp.body.stored_status = "starting" /\ resp.body.real_time_status = "pending"
    /\ instances[resp.id].status = "pending"
    /\ instances[resp.id].last_status_update = "set"
    /\ instances[resp.id].user_id = "alice" /\ instances[resp.id].ecs_service_arn = resp.id

=============================================================================
